---- MODULE Spec2Model ----
(***************************************************************************)
(* SmartDocs RAG backend (backend/main.py, backend/ingest.py).             *)
(*                                                                         *)
(* Four specifications over one set of variables:                          *)
(*   Spec        the POST /chat endpoint: the slowapi limiter keyed by     *)
(*               get_rate_limit_key, model selection (get_llm) and the     *)
(*               NDJSON streaming generator (chat.generate);               *)
(*   SpecKey     get_rate_limit_key as a function of the request headers;  *)
(*   SpecHistory format_history as a function of the request history;      *)
(*   SpecIngest  the offline ingestion job create_vector_db.               *)
(* Each specification leaves the variables of the others at their idle     *)
(* values.                                                                 *)
(***************************************************************************)
EXTENDS Integers, Sequences, FiniteSets, TLC

VARIABLES
    \* ---- get_rate_limit_key ----
    request,        \* the request whose key is derived (headers + client host)
    key_hash,       \* the value returned by get_rate_limit_key, NoKey before the call
    \* ---- POST /chat ----
    now,            \* wall clock, in seconds
    api_key,        \* os.getenv("GOOGLE_API_KEY") of the serving process
    storage,        \* limiter storage: key -> hit counter of the current window
    expirations,    \* limiter storage: key -> time at which the counter expires
    hits,           \* history: key -> arrival times of the requests of that identity
    rejected,       \* history: every request before the latest was answered 400 or 500
    resp,           \* the HTTP response of the latest POST /chat
    gen,            \* the streaming generator of the latest request (NoGen: it has none)
    \* ---- format_history ----
    history,        \* ChatRequest.history
    history_text,   \* the value returned by format_history, NoText before the call
    \* ---- create_vector_db ----
    ing             \* the ingestion job and the two directories it touches

keyVars == <<request, key_hash>>
chatVars == <<now, api_key, storage, expirations, hits, rejected, resp, gen>>
histVars == <<history, history_text>>
ingVars == <<ing>>
vars == <<request, key_hash, now, api_key, storage, expirations, hits, rejected,
          resp, gen, history, history_text, ing>>

(***************************************************************************)
(* Bounds of the model.                                                    *)
(***************************************************************************)
MaxHdrLen == 2      \* longest X-Forwarded-For value, in characters
MaxReq == 5         \* POST /chat requests in one behaviour
MaxTime == 60       \* the clock stops here
MaxTokens == 2      \* chunks the LLM streams for one answer
MaxHist == 12       \* longest ChatRequest.history
RolePeriod == 3     \* the roles of a history repeat with this period
MaxDocs == 2        \* chunks produced by one ingestion run
MaxRuns == 2        \* ingestion runs in one behaviour

(***************************************************************************)
(* Strings are sequences of one-character strings; a header is absent      *)
(* (None) or present with a value (possibly the empty string).             *)
(***************************************************************************)
None == [some |-> FALSE, v |-> <<>>]
Some(s) == [some |-> TRUE, v |-> s]

\* Python truthiness of `headers.get(name)`: None and "" are both falsy.
Truthy(h) == h.some /\ h.v # <<>>

RECURSIVE Str(_)
Str(s) == IF s = <<>> THEN "" ELSE s[1] \o Str(Tail(s))

\* s.split(",")[0]
RECURSIVE SplitFirst(_)
SplitFirst(s) ==
    IF s = <<>> \/ s[1] = "," THEN <<>> ELSE <<s[1]>> \o SplitFirst(Tail(s))

\* s.strip()
RECURSIVE LStrip(_)
LStrip(s) == IF s # <<>> /\ s[1] = " " THEN LStrip(Tail(s)) ELSE s
RECURSIVE RStrip(_)
RStrip(s) ==
    IF s # <<>> /\ s[Len(s)] = " " THEN RStrip(SubSeq(s, 1, Len(s) - 1)) ELSE s
Strip(s) == RStrip(LStrip(s))

\* hashlib.md5(key.encode()).hexdigest(): the digests of the session keys the
\* bounded requests can produce.
md5(key) ==
  CASE key = ":unknown" -> "29466cf0ff886d0e8c36e422389f1de7"
    [] key = ":" -> "853ae90f0351324bd73ea615e6487517"
    [] key = ":u" -> "ca95b39fc958a3ee974bcc4dc8aa54ea"
    [] key = "1:unknown" -> "965d21f8c794ee953e7f407c13ef66be"
    [] key = "1:" -> "3afcdbfeb6ecfbdd0ba628696e3cc163"
    [] key = "1:u" -> "e61e81ab3ce6064e3e57931fcd8ddd48"
    [] key = "1 1:unknown" -> "bcb1bd71117aec13b19981c5b46317aa"
    [] key = "1 1:" -> "f2b8fef2e914562b00cc93baf9d6c270"
    [] key = "1 1:u" -> "976275dffbfc4803202b136b86507e15"
    [] key = "11:unknown" -> "75732bf9ea6498b8598e84de2750864f"
    [] key = "11:" -> "314adc507266cc256fcc9d72d670729d"
    [] key = "11:u" -> "a4556784e6a850c0ff04a54d5e086f9a"
    [] key = "111:unknown" -> "b2b64dda98b04fec9475fca466bdb114"
    [] key = "111:" -> "5b1c3849efa2d27d3f1b9c63f1fb3a62"
    [] key = "111:u" -> "d6dd2208b64f9a3017171efb7ce8922f"
    [] key = "2:unknown" -> "20fcaf1b701412ee4632347edffc6378"
    [] key = "2:" -> "247730f9d0d2eaad265a470e32aa0cdf"
    [] key = "2:u" -> "d0f525681c0c1cdf628b7a034597cc3e"
    [] key = "3:unknown" -> "2fd0a8b16cdf333a9da92a71f8c2c80b"
    [] key = "3:" -> "cdee9bf40a070d58d14dfa3bb61e0032"
    [] key = "3:u" -> "d8477f6c53ebedb780756e42c36b757e"

(***************************************************************************)
(* get_rate_limit_key (main.py 29-64).                                     *)
(***************************************************************************)
\* The default of headers.get("user-agent", "unknown").
UnknownUA == <<"u", "n", "k", "n", "o", "w", "n">>

\* Lines 47-52 with a swapped precedence: X-Real-IP wins over X-Forwarded-For.
ClientIpRealFirst(req) ==
    IF Truthy(req.x_real_ip) THEN req.x_real_ip.v
    ELSE IF Truthy(req.forwarded_for) THEN Strip(SplitFirst(req.forwarded_for.v))
    ELSE req.client_host

\* Lines 47-52: the address the key is built from.
ClientIp(req) ==
    IF Truthy(req.forwarded_for) THEN Strip(SplitFirst(req.forwarded_for.v))
    ELSE IF Truthy(req.x_real_ip) THEN req.x_real_ip.v
    ELSE req.client_host

\* Line 55: headers.get("user-agent", "unknown").
UserAgent(req) == IF req.user_agent.some THEN req.user_agent.v ELSE UnknownUA

\* Line 56 without the user agent: the key is built from the address alone.
SessionKeyIpOnly(req) == Str(ClientIp(req)) \o ":"

\* Line 56: f"{ip}:{user_agent}".
SessionKey(req) == Str(ClientIp(req)) \o ":" \o Str(UserAgent(req))

get_rate_limit_key(req) == md5(SessionKey(req))

\* The requests of the model.
XffChars == {"1", ",", " "}
XffValues == UNION {[1..n -> XffChars] : n \in 0..MaxHdrLen}
Requests ==
    [forwarded_for : {None} \cup {Some(s) : s \in XffValues},
     x_real_ip     : {None, Some(<<>>), Some(<<"1">>), Some(<<"2">>)},
     client_host   : {<<"1">>, <<"3">>},
     user_agent    : {None, Some(<<>>), Some(<<"u">>), Some(UnknownUA)}]

NoKey == "-"
NoRequest == [forwarded_for |-> None, x_real_ip |-> None,
              client_host |-> <<"3">>, user_agent |-> None]

KeyIdle == request = NoRequest /\ key_hash = NoKey

\* One call of get_rate_limit_key on `request`.
DeriveKey ==
    /\ key_hash = NoKey
    /\ key_hash' = get_rate_limit_key(request)
    /\ UNCHANGED <<request, chatVars, histVars, ingVars>>

(***************************************************************************)
(* POST /chat (main.py 66-70, 129-139, 145-199).                           *)
(***************************************************************************)
\* @limiter.limit("3/minute")
Quota == 3
WindowSecs == 60

\* Three clients: A and A2 sit behind the same proxy entry with the same
\* browser (same forwarded-for and user agent, different X-Real-IP and
\* connection address); B connects directly.
ClientA == [forwarded_for |-> Some(<<"1", ",", "1">>), x_real_ip |-> None,
            client_host |-> <<"3">>, user_agent |-> Some(<<"u">>)]
ClientA2 == [forwarded_for |-> Some(<<"1", ",", "1">>), x_real_ip |-> Some(<<"2">>),
             client_host |-> <<"1">>, user_agent |-> Some(<<"u">>)]
ClientB == [forwarded_for |-> None, x_real_ip |-> None,
            client_host |-> <<"3">>, user_agent |-> Some(<<"u">>)]
Clients == {ClientA, ClientA2, ClientB}
\* key_func=get_rate_limit_key (line 67): the identity of each client.
KeyOf == [c \in Clients |-> get_rate_limit_key(c)]
Keys == {KeyOf[c] : c \in Clients}

ModelTypes == {"gemini", "local", "bogus"}
ApiKeys == {None, Some(<<>>), Some(<<"k">>)}

\* Limiter(key_func=get_rate_limit_key) with the "3/minute" limit: slowapi's
\* default fixed-window strategy over its in-memory storage.  A hit first
\* drops an expired counter, then increments the counter, and the first
\* increment of a window sets its expiry; the request passes when the counter
\* does not exceed the quota.
LimiterCount(key) == IF expirations[key] <= now THEN 0 ELSE storage[key]

\* A limiter whose window restarts at every hit (elastic expiry).
LimiterExpiryElastic(key) == now + WindowSecs

LimiterExpiry(key) ==
    IF LimiterCount(key) = 0 THEN now + WindowSecs ELSE expirations[key]

\* A limiter that lets one request too many through.
LimiterAllowsOffByOne(key) == LimiterCount(key) + 1 <= Quota + 1

LimiterAllows(key) == LimiterCount(key) + 1 <= Quota

\* get_llm that checks the API key before it looks at model_type.
get_llm_key_first(model_type, ctor_ok) ==
    IF ~Truthy(api_key) THEN [status |-> 500, llm |-> FALSE]
    ELSE IF model_type \in {"gemini", "local"}
    THEN (IF ctor_ok THEN [status |-> 200, llm |-> TRUE]
                     ELSE [status |-> 500, llm |-> FALSE])
    ELSE [status |-> 400, llm |-> FALSE]

\* get_llm(model_type) as seen by the handler: the status the request ends
\* with when get_llm raises (HTTPException 400/500 re-raised at line 196, any
\* other exception of a client constructor turned into 500 at line 199), and
\* whether an LLM client was constructed.  ctor_ok: the constructor returns.
get_llm(model_type, ctor_ok) ==
    IF model_type = "gemini"
    THEN IF ~Truthy(api_key) THEN [status |-> 500, llm |-> FALSE]
         ELSE IF ctor_ok THEN [status |-> 200, llm |-> TRUE]
         ELSE [status |-> 500, llm |-> FALSE]
    ELSE IF model_type = "local"
    THEN IF ctor_ok THEN [status |-> 200, llm |-> TRUE]
         ELSE [status |-> 500, llm |-> FALSE]
    ELSE [status |-> 400, llm |-> FALSE]

\* generate(): where it stands, the records it has yielded, and the calls it has
\* made to the retriever and to the LLM.
NoGen == [pc |-> "none", stream |-> <<>>, retrievals |-> 0, llm_calls |-> 0]
NewGen == [pc |-> "start", stream |-> <<>>, retrievals |-> 0, llm_calls |-> 0]
NoResp == [id |-> 0, key |-> NoKey, model_type |-> "local", status |-> 0, llm |-> FALSE]

\* The body of chat() (lines 148-199) up to the return of the
\* StreamingResponse: the response and the generator it hands to it.
ChatBody(id, key, model_type, ctor_ok) ==
    LET r == get_llm(model_type, ctor_ok)
    IN [resp |-> [id |-> id, key |-> key, model_type |-> model_type,
                  status |-> r.status, llm |-> r.llm],
        gen |-> IF r.status = 200 THEN NewGen ELSE NoGen,
        hit |-> TRUE]

\* The limit checked after the handler body has run.
LimitedChatBodyFirst(id, key, model_type, ctor_ok) ==
    IF LimiterAllows(key) THEN ChatBody(id, key, model_type, ctor_ok)
    ELSE [ChatBody(id, key, model_type, ctor_ok) EXCEPT !.resp.status = 429]

\* The limit checked inside the handler, after get_llm: a request that model
\* selection rejects never reaches the limiter.
LimitedChatSelectFirst(id, key, model_type, ctor_ok) ==
    LET out == ChatBody(id, key, model_type, ctor_ok)
    IN IF out.resp.status # 200 THEN [out EXCEPT !.hit = FALSE]
       ELSE IF LimiterAllows(key) THEN out
       ELSE [out EXCEPT !.resp.status = 429, !.resp.llm = FALSE, !.gen = NoGen]

\* The decorated handler (lines 145-147): slowapi hits the limiter before it
\* calls chat(), and RateLimitExceeded is answered 429 by
\* _rate_limit_exceeded_handler (line 70).  hit: the limiter was hit.
LimitedChat(id, key, model_type, ctor_ok) ==
    IF LimiterAllows(key) THEN ChatBody(id, key, model_type, ctor_ok)
    ELSE [resp |-> [id |-> id, key |-> key, model_type |-> model_type,
                    status |-> 429, llm |-> FALSE],
          gen |-> NoGen,
          hit |-> TRUE]

\* The serving process before its first request: an empty limiter storage.
ChatStart ==
    /\ now = 0
    /\ storage = [k \in Keys |-> 0]
    /\ expirations = [k \in Keys |-> 0]
    /\ hits = [k \in Keys |-> <<>>]
    /\ rejected = TRUE
    /\ resp = NoResp
    /\ gen = NoGen

ChatIdle == api_key = None /\ ChatStart

\* One POST /chat request, from the limit check to the response (the handler
\* has no suspension point before it returns the StreamingResponse).
Chat ==
    /\ resp.id < MaxReq
    /\ \E c \in Clients, model_type \in ModelTypes, ctor_ok \in BOOLEAN :
        LET key == KeyOf[c]
            out == LimitedChat(resp.id + 1, key, model_type, ctor_ok)
        IN /\ storage' = IF out.hit THEN [storage EXCEPT ![key] = LimiterCount(key) + 1]
                                    ELSE storage
           /\ expirations' = IF out.hit THEN [expirations EXCEPT ![key] = LimiterExpiry(key)]
                                        ELSE expirations
           /\ hits' = [hits EXCEPT ![key] = Append(@, now)]
           /\ rejected' = (rejected /\ (resp.id = 0 \/ resp.status \in {400, 500}))
           /\ resp' = out.resp
           /\ gen' = out.gen
    /\ UNCHANGED <<now, api_key, keyVars, histVars, ingVars>>

\* Half a window of wall-clock time passes.
Tick ==
    /\ now + WindowSecs \div 2 <= MaxTime
    /\ now' = now + WindowSecs \div 2
    /\ UNCHANGED <<api_key, storage, expirations, hits, rejected, resp, gen,
                   keyVars, histVars, ingVars>>

Emit(g, rec) == [g EXCEPT !.stream = Append(@, rec)]
Close(g) == [g EXCEPT !.pc = "closed"]

\* The handler of line 186 leaving the stream without a record.
StreamFailureSilent(g) == Close(g)

\* Lines 186-188: the exception handler of generate().
StreamFailure(g) == Close(Emit(g, "error"))

\* Lines 173-177 without the yield of line 177.
SourcesStepNoYield(g, ok) ==
    IF ok THEN [g EXCEPT !.retrievals = @ + 1, !.pc = "chain"]
          ELSE StreamFailure([g EXCEPT !.retrievals = @ + 1])

\* Lines 173-177: the retrieval, then the sources record.
SourcesStep(g, ok) ==
    IF ok THEN [Emit(g, "sources") EXCEPT !.retrievals = @ + 1, !.pc = "chain"]
          ELSE StreamFailure([g EXCEPT !.retrievals = @ + 1])

\* generate(), lines 173-177: the retrieval for the sources record.  A failure
\* of the retriever (or of building the record) is caught at line 186.
GenSources ==
    /\ gen.pc = "start"
    /\ \E ok \in BOOLEAN : gen' = SourcesStep(gen, ok)
    /\ UNCHANGED <<now, api_key, storage, expirations, hits, rejected, resp,
                   keyVars, histVars, ingVars>>

\* Line 180, chain.astream up to its first chunk: the chain retrieves the
\* context again, builds the prompt and calls the LLM.
GenChainStart ==
    /\ gen.pc = "chain"
    /\ \E outcome \in {"ok", "retriever_fails", "llm_fails"} :
        LET g == [gen EXCEPT !.retrievals = @ + 1,
                             !.llm_calls = IF outcome = "retriever_fails" THEN @ ELSE @ + 1]
        IN gen' = IF outcome = "ok" THEN [g EXCEPT !.pc = "tokens"]
                                    ELSE StreamFailure(g)
    /\ UNCHANGED <<now, api_key, storage, expirations, hits, rejected, resp,
                   keyVars, histVars, ingVars>>

NumTokens(g) == Cardinality({i \in DOMAIN g.stream : g.stream[i] = "token"})

\* Lines 180-181: one chunk of the answer.
GenToken ==
    /\ gen.pc = "tokens"
    /\ NumTokens(gen) < MaxTokens
    /\ gen' = Emit(gen, "token")
    /\ UNCHANGED <<now, api_key, storage, expirations, hits, rejected, resp,
                   keyVars, histVars, ingVars>>

\* The LLM stream fails between two chunks.
GenFail ==
    /\ gen.pc = "tokens"
    /\ gen' = StreamFailure(gen)
    /\ UNCHANGED <<now, api_key, storage, expirations, hits, rejected, resp,
                   keyVars, histVars, ingVars>>

\* Line 184: the LLM stream is exhausted.
GenDone ==
    /\ gen.pc = "tokens"
    /\ gen' = Close(Emit(gen, "done"))
    /\ UNCHANGED <<now, api_key, storage, expirations, hits, rejected, resp,
                   keyVars, histVars, ingVars>>

(***************************************************************************)
(* format_history and the prompt template (main.py 107-127).  A text is    *)
(* the sequence of the pieces that are concatenated to build it.           *)
(***************************************************************************)
\* history[-10:]
HistoryWindow == 10

Roles == {"user", "assistant", "system"}
\* The content of the i-th message of a history: pairwise distinct words.
Words == <<"m1", "m2", "m3", "m4", "m5", "m6", "m7", "m8", "m9", "m10",
           "m11", "m12", "m13", "m14">>
\* Histories of every length up to MaxHist whose roles repeat with period
\* RolePeriod.
Histories ==
    UNION {{[i \in 1..n |-> [role |-> r[i % RolePeriod], content |-> Words[i]]]
            : r \in [0..(RolePeriod - 1) -> Roles]} : n \in 0..MaxHist}

\* Lines 124-125: one line of the transcript.
HistoryLine(msg) ==
    (IF msg.role = "user" THEN "User" ELSE "Assistant") \o ": " \o msg.content \o "\n"

\* Line 120 keeping the first messages instead of the last ones: history[:10].
RecentHistoryOldest(h) == IF Len(h) > HistoryWindow THEN SubSeq(h, 1, HistoryWindow) ELSE h

\* Line 120: history[-10:] if len(history) > 10 else history.
RecentHistory(h) ==
    IF Len(h) > HistoryWindow THEN SubSeq(h, Len(h) - HistoryWindow + 1, Len(h)) ELSE h

format_history(h) ==
    IF h = <<>> THEN <<>>
    ELSE <<"Previous conversation:\n">>
         \o [i \in 1..Len(RecentHistory(h)) |-> HistoryLine(RecentHistory(h)[i])]
         \o <<"\n">>

\* Lines 107-111: the template filled with context, history and question.
PromptText(context, hist_text, question) ==
    <<"Answer the question based ONLY on the following context:\n", context, "\n\n">>
    \o hist_text \o <<"Question: ", question, "\n">>

NoText == <<"?">>
HistIdle == history = <<>> /\ history_text = NoText

\* One call of format_history on the request's history (line 159).
FormatHistory ==
    /\ history_text = NoText
    /\ history_text' = format_history(history)
    /\ UNCHANGED <<history, keyVars, chatVars, ingVars>>

(***************************************************************************)
(* create_vector_db (ingest.py 11-48).  The job is a straight line of      *)
(* calls into the loader, the splitter, the embedding model, shutil and    *)
(* Chroma; each may raise, which ends the run.                             *)
(***************************************************************************)
NoDb == [exists |-> FALSE, entries |-> {}, complete |-> FALSE]

\* The index entries a run writes for n chunks.
RunEntries(run, n) == {<<run, i>> : i \in 1..n}

\* The order of the steps, with the index cleared before the documents are read.
StepAfterClearFirst(step) ==
    CASE step = "check" -> "clear"
      [] step = "clear" -> "load"
      [] step = "load" -> "split"
      [] step = "split" -> "embedder"
      [] step = "embedder" -> "write"
      [] step = "write" -> "success"

\* The order of the steps of create_vector_db.
StepAfter(step) ==
    CASE step = "check" -> "load"           \* line 12
      [] step = "load" -> "split"           \* lines 18-19
      [] step = "split" -> "embedder"       \* lines 23-28
      [] step = "embedder" -> "clear"       \* line 33
      [] step = "clear" -> "write"          \* lines 38-40
      [] step = "write" -> "success"        \* lines 43-47

\* Lines 38-40 with the deletion left out.
ClearedKeep(db) == db

\* Lines 38-40: shutil.rmtree(DB_PATH) when the directory exists.
Cleared(db) == IF db.exists THEN NoDb ELSE db

\* The run stops with an exception raised at step `at`.
Failed(i, at) == [i EXCEPT !.pc = "failed", !.at = at]

IngestIdle ==
    ing = [pc |-> "idle", at |-> "none", run |-> 0, data_exists |-> FALSE,
           chunks |-> 0, db |-> NoDb, db0 |-> NoDb]

\* `python ingest.py` is started; db0 remembers the index the run found.
IngStart ==
    /\ ing.pc \in {"idle", "returned", "failed", "success"}
    /\ ing.run < MaxRuns
    /\ \E d \in BOOLEAN :
        ing' = [ing EXCEPT !.pc = "check", !.at = "none", !.run = @ + 1,
                           !.data_exists = d, !.chunks = 0, !.db0 = ing.db]
    /\ UNCHANGED <<keyVars, chatVars, histVars>>

\* Lines 12-14: the source-directory check.
IngCheck ==
    /\ ing.pc = "check"
    /\ ing' = IF ing.data_exists THEN [ing EXCEPT !.pc = StepAfter("check")]
                                 ELSE [ing EXCEPT !.pc = "returned", !.at = "check"]
    /\ UNCHANGED <<keyVars, chatVars, histVars>>

\* Lines 18-19: DirectoryLoader.load().
IngLoad ==
    /\ ing.pc = "load"
    /\ \E ok \in BOOLEAN :
        ing' = IF ok THEN [ing EXCEPT !.pc = StepAfter("load")] ELSE Failed(ing, "load")
    /\ UNCHANGED <<keyVars, chatVars, histVars>>

\* Lines 23-28: split_documents.
IngSplit ==
    /\ ing.pc = "split"
    /\ \E ok \in BOOLEAN, n \in 0..MaxDocs :
        ing' = IF ok THEN [ing EXCEPT !.pc = StepAfter("split"), !.chunks = n]
                     ELSE Failed(ing, "split")
    /\ UNCHANGED <<keyVars, chatVars, histVars>>

\* Line 33: HuggingFaceEmbeddings(...).
IngEmbedder ==
    /\ ing.pc = "embedder"
    /\ \E ok \in BOOLEAN :
        ing' = IF ok THEN [ing EXCEPT !.pc = StepAfter("embedder")]
                     ELSE Failed(ing, "embedder")
    /\ UNCHANGED <<keyVars, chatVars, histVars>>

\* Lines 38-40.  A failing rmtree leaves the directory with any part of its
\* content.
IngClear ==
    /\ ing.pc = "clear"
    /\ \/ ing' = [ing EXCEPT !.pc = StepAfter("clear"), !.db = Cleared(ing.db)]
       \/ /\ ing.db.exists
          /\ \E rest \in SUBSET ing.db.entries :
               ing' = [Failed(ing, "clear") EXCEPT
                         !.db = [exists |-> TRUE, entries |-> rest, complete |-> FALSE]]
    /\ UNCHANGED <<keyVars, chatVars, histVars>>

\* Lines 43-47: Chroma.from_documents embeds the chunks and adds them to the
\* collection persisted at DB_PATH.  A failure leaves the entries written so
\* far (and, with none written, possibly no directory).
IngWrite ==
    /\ ing.pc = "write"
    /\ \/ ing' = [ing EXCEPT !.pc = StepAfter("write"),
                             !.db = [exists |-> TRUE,
                                     entries |-> ing.db.entries \cup RunEntries(ing.run, ing.chunks),
                                     complete |-> TRUE]]
       \/ \E m \in 0..ing.chunks, mk \in BOOLEAN :
            /\ m > 0 \/ ing.db.exists => mk
            /\ ing' = [Failed(ing, "write") EXCEPT
                         !.db = [exists |-> mk,
                                 entries |-> ing.db.entries \cup RunEntries(ing.run, m),
                                 complete |-> FALSE]]
    /\ UNCHANGED <<keyVars, chatVars, histVars>>

(***************************************************************************)
(* Specifications.                                                         *)
(***************************************************************************)
\* The serving process starts with the environment it was given, an empty
\* limiter storage and no request received.
Init == api_key \in ApiKeys /\ ChatStart /\ KeyIdle /\ HistIdle /\ IngestIdle

Next == Chat \/ Tick \/ GenSources \/ GenChainStart \/ GenToken \/ GenFail \/ GenDone

Spec == Init /\ [][Next]_vars

InitKey == request \in Requests /\ key_hash = NoKey /\ ChatIdle /\ HistIdle /\ IngestIdle
SpecKey == InitKey /\ [][DeriveKey]_vars

InitHistory == history \in Histories /\ history_text = NoText
               /\ KeyIdle /\ ChatIdle /\ IngestIdle
SpecHistory == InitHistory /\ [][FormatHistory]_vars

InitIngest == KeyIdle /\ ChatIdle /\ HistIdle /\ IngestIdle
NextIngest == IngStart \/ IngCheck \/ IngLoad \/ IngSplit \/ IngEmbedder
              \/ IngClear \/ IngWrite
SpecIngest == InitIngest /\ [][NextIngest]_vars

(***************************************************************************)
(* Properties of POST /chat (Spec).                                        *)
(***************************************************************************)
Count(seq, x) == Cardinality({i \in DOMAIN seq : seq[i] = x})
Terminals(seq) == Count(seq, "done") + Count(seq, "error")

\* The fixed window the i-th request of an identity falls in, from the
\* arrival times ts alone: a window opens with the first request, and with
\* every request that arrives once the previous window has elapsed.
RECURSIVE WindowOf(_, _)
WindowOf(ts, i) ==
    IF i = 1 THEN [start |-> ts[1], pos |-> 1]
    ELSE LET p == WindowOf(ts, i - 1)
         IN IF ts[i] >= p.start + WindowSecs THEN [start |-> ts[i], pos |-> 1]
            ELSE [start |-> p.start, pos |-> p.pos + 1]

\* The window and the position in it of the latest request.
LatestWindow == WindowOf(hits[resp.key], Len(hits[resp.key]))

\* C1 as claimed: every stream starts with a sources record and holds
\* exactly one, whatever the retriever does.
C1_SourcesAlwaysFirst ==
    gen.stream # <<>> => gen.stream[1] = "sources" /\ Count(gen.stream, "sources") = 1

\* C1, amended: a stream holds at most one sources record, and a sources
\* record is the first record; the stream starts with the sources record
\* whenever the first retrieval succeeds, and when that retrieval fails the
\* stream is the single record error, with no sources record and no LLM call.
C1_SourcesFirstUnlessRetrievalFails ==
    /\ Count(gen.stream, "sources") <= 1
    /\ \A i \in DOMAIN gen.stream : gen.stream[i] = "sources" => i = 1
    /\ gen.pc \in {"chain", "tokens"} => gen.stream # <<>> /\ gen.stream[1] = "sources"
    /\ gen.stream # <<>> /\ gen.stream[1] # "sources"
         => /\ gen.stream = <<"error">>
            /\ gen.pc = "closed"
            /\ gen.retrievals = 1
            /\ gen.llm_calls = 0

\* The first retrieval failed: the stream is the error record alone.
C1_Witness == resp.status = 200 /\ gen.pc = "closed" /\ gen.stream = <<"error">>

\* C2: a stream holds at most one terminal record (done or error, never
\* both), a terminal record is the last record and closes the stream, every
\* token precedes it, and a closed stream ends with a terminal record: a
\* failure while tokens are streamed leaves sources, the tokens sent and error.
C2_OneTerminalLast ==
    /\ Terminals(gen.stream) <= 1
    /\ \A i \in DOMAIN gen.stream :
         gen.stream[i] \in {"done", "error"} => i = Len(gen.stream) /\ gen.pc = "closed"
    /\ gen.pc = "closed" =>
         /\ gen.stream # <<>>
         /\ gen.stream[Len(gen.stream)] \in {"done", "error"}
         /\ \A i \in 1..(Len(gen.stream) - 1) : gen.stream[i] \in {"sources", "token"}
    /\ gen.pc \in {"start", "chain", "tokens"} => Terminals(gen.stream) = 0

\* The LLM stream failed after a token had been sent.
C2_Witness == gen.pc = "closed" /\ gen.stream = <<"sources", "token", "error">>

\* C3: the latest request of an identity is allowed when it is one of the
\* first 3 of its window and denied (429) when it is the 4th or a later one;
\* a request that arrives once the window of the previous request has elapsed
\* is allowed, and so is any request with fewer than 3 requests of its
\* identity in the 60 seconds before it.
C3_QuotaPerWindow ==
    resp.id > 0 =>
      LET ts == hits[resp.key]
          n == Len(ts)
      IN /\ LatestWindow.pos <= Quota => resp.status # 429
         /\ LatestWindow.pos > Quota => resp.status = 429
         /\ n > 1 /\ ts[n] >= WindowOf(ts, n - 1).start + WindowSecs => resp.status # 429
         /\ Cardinality({i \in 1..(n - 1) : ts[i] > ts[n] - WindowSecs}) < Quota
              => resp.status # 429

\* Five requests of one identity: four in the first window (the 4th was the
\* latest request when it was denied), the 5th allowed once the window elapsed.
C3_Witness ==
    /\ resp.id > 0
    /\ Len(hits[resp.key]) = Quota + 2
    /\ WindowOf(hits[resp.key], Quota + 1).pos = Quota + 1
    /\ LatestWindow.pos = 1
    /\ resp.status = 200

\* C4: a request the limiter denies is answered 429 and does no pipeline
\* work: no LLM client is constructed and the request has no generator, hence
\* no retrieval, no LLM call and no stream record.
C4_DeniedDoesNothing ==
    resp.id > 0 /\ (LatestWindow.pos > Quota \/ resp.status = 429) =>
        /\ resp.status = 429
        /\ ~resp.llm
        /\ gen = NoGen
        /\ gen.retrievals = 0 /\ gen.llm_calls = 0 /\ gen.stream = <<>>

\* The 4th request of a window, denied.
C4_Witness == resp.status = 429 /\ LatestWindow.pos = Quota + 1

\* C5: of the requests that pass the limiter, one with an unknown model_type
\* is answered 400 and one for gemini without GOOGLE_API_KEY is answered 500
\* (never the same status), and neither constructs an LLM client or has a
\* generator: no retrieval, no LLM call, no record.
C5_ModelSelectionFailsFirst ==
    resp.id > 0 /\ resp.status # 429 =>
        /\ resp.model_type \notin {"gemini", "local"} => resp.status = 400
        /\ resp.model_type = "gemini" /\ api_key = None => resp.status = 500
        /\ resp.status \in {400, 500} =>
             /\ ~resp.llm
             /\ gen = NoGen
             /\ gen.retrievals = 0 /\ gen.llm_calls = 0 /\ gen.stream = <<>>

\* An unknown model_type while the API key is unset too: 400, not 500.
C5_Witness == resp.status = 400 /\ resp.model_type = "bogus" /\ api_key = None

\* C10: a request that model selection rejects (400 or 500) has been counted
\* by the limiter, and the 4th request of a window is answered 429 whatever
\* its model_type and however the earlier requests of the window were
\* answered.
C10_RejectedRequestsCount ==
    resp.id > 0 =>
        /\ resp.status \in {400, 500} =>
             /\ storage[resp.key] = LatestWindow.pos
             /\ expirations[resp.key] = LatestWindow.start + WindowSecs
        /\ LatestWindow.pos > Quota => resp.status = 429 /\ resp.status # 400

\* Three requests of one identity, each answered 400 or 500, then a valid
\* request of that identity in the same window: denied.
C10_Witness ==
    /\ resp.id = Quota + 1
    /\ Len(hits[resp.key]) = Quota + 1
    /\ LatestWindow.pos = Quota + 1
    /\ rejected
    /\ resp.model_type = "local"
    /\ resp.status = 429

(***************************************************************************)
(* Properties of get_rate_limit_key (SpecKey).                             *)
(***************************************************************************)
\* The address C6 names: the first forwarded-for entry when the header is
\* present, else X-Real-IP when present, else the connection address.
AddressIfPresent(req) ==
    IF req.forwarded_for.some THEN Strip(SplitFirst(req.forwarded_for.v))
    ELSE IF req.x_real_ip.some THEN req.x_real_ip.v
    ELSE req.client_host

\* The same, a header counting only when it is present and not empty.
AddressIfNonEmpty(req) ==
    IF req.forwarded_for.some /\ req.forwarded_for.v # <<>>
    THEN Strip(SplitFirst(req.forwarded_for.v))
    ELSE IF req.x_real_ip.some /\ req.x_real_ip.v # <<>> THEN req.x_real_ip.v
    ELSE req.client_host

\* The user agent, "unknown" when the header is absent.
AgentOrUnknown(req) == IF req.user_agent.some THEN req.user_agent.v ELSE UnknownUA

\* C6 as claimed: the key is the hash of the address chosen by header
\* presence and of the user agent; requests with the same forwarded-for
\* header (present) and the same user-agent header have the same key; requests
\* with the same chosen address and different user agents have different keys.
C6_KeyByHeaderPresence ==
    key_hash # NoKey =>
        /\ key_hash = md5(Str(AddressIfPresent(request)) \o ":" \o Str(AgentOrUnknown(request)))
        /\ \A b \in Requests :
             /\ b.forwarded_for.some
             /\ b.forwarded_for = request.forwarded_for
             /\ b.user_agent = request.user_agent
             => get_rate_limit_key(b) = key_hash
        /\ \A b \in Requests :
             /\ AddressIfPresent(b) = AddressIfPresent(request)
             /\ AgentOrUnknown(b) # AgentOrUnknown(request)
             => get_rate_limit_key(b) # key_hash

\* C6, amended: the same with "present" read as "present and not empty" for
\* X-Forwarded-For and X-Real-IP: an empty header is passed over like an
\* absent one.
C6_KeyByNonEmptyHeader ==
    key_hash # NoKey =>
        /\ key_hash = md5(Str(AddressIfNonEmpty(request)) \o ":" \o Str(AgentOrUnknown(request)))
        /\ \A b \in Requests :
             /\ b.forwarded_for.some /\ b.forwarded_for.v # <<>>
             /\ b.forwarded_for = request.forwarded_for
             /\ b.user_agent = request.user_agent
             => get_rate_limit_key(b) = key_hash
        /\ \A b \in Requests :
             /\ AddressIfNonEmpty(b) = AddressIfNonEmpty(request)
             /\ AgentOrUnknown(b) # AgentOrUnknown(request)
             => get_rate_limit_key(b) # key_hash

\* A forwarded-for list, with an X-Real-IP that names another address.
C6_Witness ==
    /\ key_hash # NoKey
    /\ request.forwarded_for = Some(<<"1", ",">>)
    /\ request.x_real_ip = Some(<<"2">>)
    /\ request.user_agent = None

(***************************************************************************)
(* Properties of format_history (SpecHistory).                             *)
(***************************************************************************)
Min(a, b) == IF a < b THEN a ELSE b

\* The transcript line C7 expects for a message.
LabelledLine(msg) ==
    IF msg.role = "user" THEN "User: " \o msg.content \o "\n"
                         ELSE "Assistant: " \o msg.content \o "\n"

\* C7: the text of an empty history is empty, and so adds nothing to the
\* prompt; otherwise it is the header, one line for each of the last 10
\* messages (all of them up to 10) in their order, labelled User or
\* Assistant, and a blank line; no older message has a line.
C7_LastTenMessages ==
    history_text # NoText =>
      LET n == Len(history)
          k == Min(n, HistoryWindow)
      IN IF n = 0
         THEN /\ history_text = <<>>
              /\ PromptText("ctx", history_text, "q")
                   = <<"Answer the question based ONLY on the following context:\n",
                       "ctx", "\n\n", "Question: ", "q", "\n">>
         ELSE /\ Len(history_text) = k + 2
              /\ history_text[1] = "Previous conversation:\n"
              /\ history_text[k + 2] = "\n"
              /\ \A j \in 1..k : history_text[j + 1] = LabelledLine(history[n - k + j])
              /\ \A i \in 1..(n - k) : \A j \in DOMAIN history_text :
                     history_text[j] # LabelledLine(history[i])

\* A history of 12 messages: the two oldest are dropped.
C7_Witness ==
    /\ history_text # NoText
    /\ Len(history) = HistoryWindow + 2
    /\ history[1].role = "system"

(***************************************************************************)
(* Properties of create_vector_db (SpecIngest).                            *)
(***************************************************************************)
BeforeClear == {"check", "load", "split", "embedder"}

\* C8: until the source-directory check, the loading, the chunking and the
\* construction of the embedder have all succeeded, and when the run ends at
\* one of them, the index directory is as the run found it.
C8_IndexUntouchedBeforeClear ==
    \/ ing.pc \in BeforeClear
    \/ ing.pc \in {"returned", "failed"} /\ ing.at \in BeforeClear
    => ing.db = ing.db0

\* A run that fails at the embedder leaves the complete index of an earlier run.
C8_Witness ==
    /\ ing.pc = "failed" /\ ing.at = "embedder"
    /\ ing.db.complete /\ ing.db.entries # {}

\* C9: a run that fails in Chroma.from_documents leaves an index that is not
\* complete and holds no entry of the index the run found (nothing is
\* restored); a run that succeeds leaves a complete index holding exactly the
\* entries of that run.
C9_NoRollback ==
    /\ ing.pc = "failed" /\ ing.at = "write" =>
         /\ ~ing.db.complete
         /\ ing.db.entries \cap ing.db0.entries = {}
         /\ ing.db.entries \subseteq RunEntries(ing.run, ing.chunks)
         /\ ing.db0.complete => ing.db # ing.db0
    /\ ing.pc = "success" =>
         /\ ing.db.complete
         /\ ing.db.exists
         /\ ing.db.entries = RunEntries(ing.run, ing.chunks)

\* The run found a complete index, deleted it and failed while writing.
C9_Witness ==
    /\ ing.pc = "failed" /\ ing.at = "write"
    /\ ing.db0.complete /\ ing.db0.entries # {}
    /\ ~ing.db.complete

====
